---- MODULE Spec2Model ----
(***************************************************************************)
(* Model of the Manage service (src/manage/service.py): the configuration  *)
(* of portals and rest services, the create / update / delete / read       *)
(* requests on it, and the validate-normalise-probe-persist pipeline of    *)
(* _portal_validation and _rest_validation.                                *)
(*                                                                         *)
(* Data representation.  A Python str is a sequence of one-character       *)
(* strings wrapped as [str |-> <<...>>], None is [null |-> TRUE], a dict   *)
(* (jobject) is a function whose domain is its set of keys, a bool is      *)
(* [bool |-> b].  Service names are one-character keys k, whose str is     *)
(* <<k>>: they are compared with the program names parsed from the         *)
(* supervisor's output.  The persisted file holds the JSON document of the *)
(* whole configuration; for dicts of str / bool / None the JSON round trip *)
(* yields the same tree, so the file is modelled by that tree.             *)
(*                                                                         *)
(* Specifications.  Spec serves every request as one step.  SpecSteps runs *)
(* the writes of two handlers step by step (name check, validation, clone, *)
(* store, swap) with reads in between; SpecSingle does the same for one    *)
(* handler, with resets between its requests.                              *)
(***************************************************************************)
EXTENDS Integers, Sequences, FiniteSets, TLC

\* conf: the in-memory Configuration (self._conf); file: the content of the
\* configuration file (self._path); result: the response of the last request;
\* nops: the number of requests served so far; threads: for every request
\* handler that runs side by side with another, how far its request got and
\* what it holds locally; last: which handler wrote the file last and which
\* one replaced self._conf last
VARIABLES conf, file, result, nops, threads, last

vars == <<conf, file, result, nops, threads, last>>

\* the number of requests a behaviour of the model serves when every request
\* runs to its end before the next one starts
MaxOps == 3

\* the number of requests a behaviour serves when requests run step by step
MaxReqs == 3

(***************************************************************************)
(* Values                                                                  *)
(***************************************************************************)
None == [null |-> TRUE]

Str(chars) == [str |-> chars]

Bool(b) == [bool |-> b]

EmptyDict == <<>>

IsStr(v) == DOMAIN v = {"str"}

IsBool(v) == DOMAIN v = {"bool"}

IsDict(v) == (DOMAIN v) \cap {"str", "null", "bool"} = {}

\* Python truthiness of a value that is None or a str
Truthy(v) == v # None /\ v # Str(<<>>)

\* the dict is built anew with key k alone
SetKeyAlone(d, k, v) == [ x \in {k} |-> v ]

\* d[k] = v on a dict, adding the key when it is missing
SetKey(d, k, v) == [x \in (DOMAIN d) \cup {k} |-> IF x = k THEN v ELSE d[x]]

\* del d[k]
DelKey(d, k) == [x \in (DOMAIN d) \ {k} |-> d[x]]

(***************************************************************************)
(* str.strip(), on character sequences                                     *)
(***************************************************************************)
RECURSIVE LStrip(_)
LStrip(s) == IF s # <<>> /\ Head(s) = " " THEN LStrip(Tail(s)) ELSE s

RECURSIVE RStrip(_)
RStrip(s) ==
    IF s # <<>> /\ s[Len(s)] = " " THEN RStrip(SubSeq(s, 1, Len(s) - 1)) ELSE s

StripChars(s) == RStrip(LStrip(s))

Strip(v) == Str(StripChars(v.str))

Contains(s, c) == \E i \in 1..Len(s) : s[i] = c

(***************************************************************************)
(* The file system the service runs on: home and working directory, the    *)
(* existing directories and the existing regular files.                    *)
(***************************************************************************)
Home == <<"/", "h">>

Cwd == <<"/", "w">>

Dirs == { <<"/">>, Home, Cwd, Home \o <<"/", "d">>, Cwd \o <<"/", "d">> }

Files == { <<"/", "p">>, Home \o <<"/", "r">> }

\* os.path.expanduser: a leading "~" alone or followed by "/" becomes $HOME
expanduser(s) ==
    IF s # <<>> /\ Head(s) = "~" /\ (Len(s) = 1 \/ s[2] = "/")
    THEN Home \o Tail(s)
    ELSE s

\* os.path.abspath: a relative path is joined to the working directory
abspath(s) ==
    IF s # <<>> /\ Head(s) = "/" THEN s
    ELSE IF s = <<>> THEN Cwd
    ELSE Cwd \o <<"/">> \o s

\* the path the checks look at: expanduser when it holds a tilde, then abspath
Resolve(s) == abspath(IF Contains(s, "~") THEN expanduser(s) ELSE s)

isdir(s) == s \in Dirs

isfile(s) == s \in Files

(***************************************************************************)
(* Responses                                                               *)
(***************************************************************************)
\* the response of a request, with the external calls the request made;
\* data is the payload: True for a write, the mapping for a read
Reply(op, name, code, errs, data, nvmCalls, supCalls, storeCalls) ==
    [ op |-> op, name |-> name, code |-> code, errs |-> errs, data |-> data,
      nvmCalls |-> nvmCalls, supCalls |-> supCalls, storeCalls |-> storeCalls ]

Resp(op, name, code, errs, nvmCalls, supCalls, storeCalls) ==
    Reply(op, name, code, errs,
          IF code = "OK" THEN Bool(TRUE) ELSE None,
          nvmCalls, supCalls, storeCalls)

\* one entry of an error list: the field, as the sequence of its dotted
\* parts, and the message
Err(field, msg) == <<field, msg>>

Outcome(res, c, f) == [ result |-> res, conf |-> c, file |-> f ]

(***************************************************************************)
(* The record definitions define/portal.json and define/rest.json, as      *)
(* Parent.valid applies them: required and optional nodes and their types. *)
(* An optional node may be missing or None.                                *)
(***************************************************************************)
OptStr(d, k) == k \in DOMAIN d => (d[k] = None \/ IsStr(d[k]))

GitValid(g) ==
    /\ IsDict(g)
    /\ DOMAIN g \subseteq {"checkout", "submodule"}
    /\ \A k \in DOMAIN g : IsBool(g[k])

PortalValid(data) ==
    /\ DOMAIN data \subseteq {"path", "output", "git", "node"}
    /\ "path" \in DOMAIN data /\ IsStr(data.path)
    /\ "output" \in DOMAIN data /\ IsStr(data.output)
    /\ "git" \in DOMAIN data => GitValid(data.git)
    /\ "node" \in DOMAIN data =>
          /\ IsDict(data.node)
          /\ DOMAIN data.node \subseteq {"nvm"}
          /\ OptStr(data.node, "nvm")

\* the failures of a required str node
StrFailures(data, k) ==
    IF k \in DOMAIN data /\ IsStr(data[k]) THEN <<>>
    ELSE IF k \in DOMAIN data THEN << Err(<<"record", k>>, "invalid") >>
    ELSE << Err(<<"record", k>>, "missing") >>

\* self._portal._validation_failures, each prefixed with "record."
PortalFailures(data) ==
    StrFailures(data, "path") \o StrFailures(data, "output")

ServiceValid(d) ==
    /\ IsDict(d)
    /\ DOMAIN d \subseteq {"supervisor"}
    /\ OptStr(d, "supervisor")

RestValid(data) ==
    /\ DOMAIN data \subseteq {"path", "git", "python", "services"}
    /\ "path" \in DOMAIN data /\ IsStr(data.path)
    /\ "git" \in DOMAIN data => GitValid(data.git)
    /\ "python" \in DOMAIN data =>
          /\ IsDict(data.python)
          /\ DOMAIN data.python \subseteq {"which", "requirements"}
          /\ OptStr(data.python, "which")
          /\ OptStr(data.python, "requirements")
    /\ "services" \in DOMAIN data
    /\ IsDict(data.services)
    /\ \A k \in DOMAIN data.services : ServiceValid(data.services[k])

\* self._rest._validation_failures, each prefixed with "record."
RestFailures(data) ==
    StrFailures(data, "path")
    \o (IF "services" \notin DOMAIN data
        THEN << Err(<<"record", "services">>, "missing") >>
        ELSE IF IsDict(data.services)
                /\ \A k \in DOMAIN data.services : ServiceValid(data.services[k])
        THEN <<>>
        ELSE << Err(<<"record", "services">>, "invalid") >>)

(***************************************************************************)
(* _portal_validation                                                      *)
(***************************************************************************)
\* the resolved path is written back to the field
StripFieldResolved(data, k) == [data EXCEPT ![k] = Str(Resolve(Strip(@).str))]

\* lines 77-78 / 94-95 / 317-318: the field is replaced by its stripped value
StripField(data, k) == [data EXCEPT ![k] = Strip(@)]

\* lines 80-92 / 97-109 / 320-332: the resolved copy is checked, the field
\* itself keeps the stripped value
DirErrors(data, k) ==
    IF isdir(Resolve(data[k].str)) THEN <<>>
    ELSE << Err(<<k>>, "not a valid directory") >>

\* line 112 and line 118: the alias query runs for a non-blank nvm only
NvmProbed(node) ==
    /\ "nvm" \in DOMAIN node
    /\ Truthy(node.nvm)
    /\ Truthy(Strip(node.nvm))

\* the inner else (lines 136-138) is missing: a blank nvm is kept, stripped
NvmNormalizeKeepsBlank(node) ==
    SetKey(node, "nvm",
           IF "nvm" \in DOMAIN node /\ Truthy(node.nvm) THEN Strip(node.nvm)
           ELSE None)

\* lines 112-142: the node block after normalisation
NvmNormalize(node) ==
    SetKey(node, "nvm", IF NvmProbed(node) THEN Strip(node.nvm) ELSE None)

\* lines 120-134: the outcome of `nvm alias`: some output, none, or a failure
NvmOutcomes == {"alias", "empty", "error"}

NvmErrors(node, nvmOut) ==
    IF ~NvmProbed(node) \/ nvmOut = "alias" THEN <<>>
    ELSE IF nvmOut = "empty"
    THEN << Err(<<"record", "node", "nvm">>, "invalid alias") >>
    ELSE << Err(<<"record", "node", "nvm">>, "CalledProcessError") >>

\* the entry is set before the error list is looked at
RejectedAfterSet(op, kind, name, data, lErrors, nvmCalls, supCalls) ==
    Outcome(Resp(op, name, "DATA_FIELDS", lErrors, nvmCalls, supCalls, 0),
            [conf EXCEPT ![kind] = SetKey(@, name, data)], file)

\* lines 144-146 / 454-456: with errors in the list the request ends here,
\* before the configuration is cloned
Rejected(op, kind, name, data, lErrors, nvmCalls, supCalls) ==
    Outcome(Resp(op, name, "DATA_FIELDS", lErrors, nvmCalls, supCalls, 0),
            conf, file)

\* the swap is made before the store is known to have succeeded
PortalPersistSwapFirst(op, name, data, nvmCalls, storeOk) ==
    LET dConf == [conf EXCEPT !.portals = SetKey(@, name, data)]
    IN  IF storeOk
        THEN Outcome(Resp(op, name, "OK", <<>>, nvmCalls, 0, 1), dConf, dConf)
        ELSE Outcome(Resp(op, name, "DB_CREATE_FAILED", <<>>, nvmCalls, 0, 1),
                     dConf, file)

\* lines 148-164: clone, set the entry, store, swap.  A store that raises
\* is taken to leave the file as it was.
PortalPersist(op, name, data, nvmCalls, storeOk) ==
    LET dConf == [conf EXCEPT !.portals = SetKey(@, name, data)]
    IN  IF storeOk
        THEN Outcome(Resp(op, name, "OK", <<>>, nvmCalls, 0, 1), dConf, dConf)
        ELSE Outcome(Resp(op, name, "DB_CREATE_FAILED", <<>>, nvmCalls, 0, 1),
                     conf, file)

PortalValidation(op, name, data, nvmOut, storeOk) ==
    IF ~PortalValid(data)
    THEN Outcome(Resp(op, name, "DATA_FIELDS", PortalFailures(data), 0, 0, 0),
                 conf, file)
    ELSE
      LET d1 == StripField(data, "path")
          d2 == StripField(d1, "output")
          lDirs == DirErrors(d1, "path") \o DirErrors(d2, "output")
      IN  IF "node" \notin DOMAIN d2
          THEN \* line 112: data.node raises AttributeError, caught nowhere
               Outcome(Resp(op, name, "UNCAUGHT",
                            << Err(<<"node">>, "AttributeError") >>, 0, 0, 0),
                       conf, file)
          ELSE
            LET d3 == [d2 EXCEPT !.node = NvmNormalize(d2.node)]
                nvmCalls == IF NvmProbed(d2.node) THEN 1 ELSE 0
                lErrors == lDirs \o NvmErrors(d2.node, nvmOut)
            IN  IF lErrors # <<>>
                THEN Rejected(op, "portals", name, d3, lErrors, nvmCalls, 0)
                ELSE PortalPersist(op, name, d3, nvmCalls, storeOk)

(***************************************************************************)
(* _rest_validation                                                        *)
(***************************************************************************)
\* lines 335 and 341, 366 and 372: a python path is checked when non-blank
PyNonBlank(py, k) ==
    /\ k \in DOMAIN py
    /\ Truthy(py[k])
    /\ Truthy(Strip(py[k]))

\* an unset field is deleted instead of being set to None
PyNormalizeDrops(py, k) ==
    IF PyNonBlank(py, k) THEN SetKey(py, k, Strip(py[k])) ELSE DelKey(py, k)

\* lines 334-363, 365-394: which / requirements after normalisation
PyNormalize(py, k) ==
    SetKey(py, k, IF PyNonBlank(py, k) THEN Strip(py[k]) ELSE None)

\* lines 343-355, 374-386: the resolved copy must be an existing file
FileErrors(py, k) ==
    IF PyNonBlank(py, k) /\ ~isfile(Resolve(Strip(py[k]).str))
    THEN << Err(<<"python", k>>, "not found") >>
    ELSE <<>>

\* str.split(c): the pieces between the occurrences of c
RECURSIVE SplitOn(_, _)
SplitOn(s, c) ==
    IF ~Contains(s, c) THEN << s >>
    ELSE LET i == CHOOSE j \in 1..Len(s) :
                     s[j] = c /\ \A h \in 1..(j - 1) : s[h] # c
         IN  << SubSeq(s, 1, i - 1) >> \o SplitOn(SubSeq(s, i + 1, Len(s)), c)

\* lines 400-411: the first word of every non-empty line of the output
Programs(out) ==
    LET lOut == SplitOn(out, "\n")
    IN  { SplitOn(lOut[i], " ")[1] : i \in { j \in 1..Len(lOut) : lOut[j] # <<>> } }

\* lines 420-436: a service's supervisor after normalisation
SupNormalize(d) ==
    SetKey(d, "supervisor",
           IF "supervisor" \in DOMAIN d /\ Truthy(d.supervisor)
              /\ Truthy(Strip(d.supervisor))
           THEN Strip(d.supervisor)
           ELSE None)

\* lines 438-452: the explicit name, else the service's own name, must be a
\* program of the supervisor
ServiceError(k, d, lPrograms) ==
    IF Truthy(SupNormalize(d).supervisor)
    THEN IF SupNormalize(d).supervisor.str \notin lPrograms
         THEN << Err(<<"record", "services", k, "supervisor">>,
                     "not a valid supervisor program") >>
         ELSE <<>>
    ELSE IF <<k>> \notin lPrograms
         THEN << Err(<<"record", "services", k>>,
                     "not a valid supervisor program") >>
         ELSE <<>>

\* the order in which data.services.items() yields the services
ServiceOrder == <<"a", "w">>

\* lines 417-452: the loop over the services
RECURSIVE ServiceErrors(_, _, _)
ServiceErrors(services, lPrograms, keys) ==
    IF keys = <<>> THEN <<>>
    ELSE (IF Head(keys) \in DOMAIN services
          THEN ServiceError(Head(keys), services[Head(keys)], lPrograms)
          ELSE <<>>)
         \o ServiceErrors(services, lPrograms, Tail(keys))

\* the outcomes of `supervisorctl avail`: a failure, or its output
SupFailed == [ ok |-> FALSE, out |-> <<>> ]

SupOutput(out) == [ ok |-> TRUE, out |-> out ]

\* the listing is asked for inside the loop, once for every service
SupProbesPerService(services) == Cardinality(DOMAIN services)

\* lines 396-415: `supervisorctl avail` runs above the loop over the
\* services, once whatever their number
SupProbes(services) == 1

\* the outcome of a request that ran the listing n times
Probed(o, n) == [o EXCEPT !.result.supCalls = n]

\* the reference is swapped before the store is attempted
RestPersistSwapFirst(op, name, data, storeOk) ==
    LET dConf == [conf EXCEPT !.rest = SetKey(@, name, data)]
    IN  IF storeOk
        THEN Outcome(Resp(op, name, "OK", <<>>, 0, 1, 1), dConf, dConf)
        ELSE Outcome(Resp(op, name, "DB_CREATE_FAILED", <<>>, 0, 1, 1),
                     dConf, file)

\* lines 458-474: clone, set the entry, store, swap
RestPersist(op, name, data, storeOk) ==
    LET dConf == [conf EXCEPT !.rest = SetKey(@, name, data)]
    IN  IF storeOk
        THEN Outcome(Resp(op, name, "OK", <<>>, 0, 1, 1), dConf, dConf)
        ELSE Outcome(Resp(op, name, "DB_CREATE_FAILED", <<>>, 0, 1, 1),
                     conf, file)

RestValidation(op, name, data, supOut, storeOk) ==
    IF ~RestValid(data)
    THEN Outcome(Resp(op, name, "DATA_FIELDS", RestFailures(data), 0, 0, 0),
                 conf, file)
    ELSE
      LET d1 == StripField(data, "path")
          lDir == DirErrors(d1, "path")
      IN  IF "python" \notin DOMAIN d1
          THEN \* line 335: data.python raises AttributeError, caught nowhere
               Outcome(Resp(op, name, "UNCAUGHT",
                            << Err(<<"python">>, "AttributeError") >>, 0, 0, 0),
                       conf, file)
          ELSE IF ~supOut.ok /\ DOMAIN d1.services # {}
          THEN \* lines 440, 448: lPrograms was never bound (lines 400-405):
               \* UnboundLocalError, caught nowhere
               Outcome(Resp(op, name, "UNCAUGHT",
                            << Err(<<"lPrograms">>, "UnboundLocalError") >>,
                            0, 1, 0),
                       conf, file)
          ELSE
            LET py1 == PyNormalize(d1.python, "which")
                py2 == PyNormalize(py1, "requirements")
                lFiles == FileErrors(d1.python, "which")
                          \o FileErrors(py1, "requirements")
                lSup == IF supOut.ok THEN <<>>
                        ELSE << Err(<<"record", "services">>,
                                    "CalledProcessError") >>
                lPrograms == Programs(supOut.out)
                services == [ k \in DOMAIN d1.services |->
                                 SupNormalize(d1.services[k]) ]
                d3 == [d1 EXCEPT !.python = py2, !.services = services]
                lErrors == lDir \o lFiles \o lSup
                           \o ServiceErrors(d1.services, lPrograms, ServiceOrder)
            IN  Probed(IF lErrors # <<>>
                       THEN Rejected(op, "rest", name, d3, lErrors, 0, 1)
                       ELSE RestPersist(op, name, d3, storeOk),
                       SupProbes(d1.services))

(***************************************************************************)
(* Requests.  req.data holds name and record; either may be missing.       *)
(***************************************************************************)
\* access.verify: a session without the right ends the request
Denied(op) == Outcome(Resp(op, "", "RIGHTS", <<>>, 0, 0, 0), conf, file)

\* evaluate(req.data, fields): the fields that are missing, in order
RECURSIVE Missing(_, _)
Missing(data, fields) ==
    IF fields = <<>> THEN <<>>
    ELSE (IF Head(fields) \in DOMAIN data THEN <<>>
          ELSE << Err(<<Head(fields)>>, "missing") >>)
         \o Missing(data, Tail(fields))

MissingFields(op, data, fields) ==
    Outcome(Resp(op, "", "DATA_FIELDS", Missing(data, fields), 0, 0, 0),
            conf, file)

Duplicate(op, name, kind) ==
    Outcome(Resp(op, name, "DB_DUPLICATE", << Err(<<name>>, kind) >>, 0, 0, 0),
            conf, file)

\* an update of a missing name that leaves an entry behind
NoRecordUpsert(op, name, kind) ==
    Outcome(Resp(op, name, "DB_NO_RECORD", << Err(<<name>>, kind) >>, 0, 0, 0),
            [conf EXCEPT ![IF kind = "rest" THEN "rest" ELSE "portals"] =
                SetKey(@, name, EmptyDict)],
            file)

NoRecord(op, name, kind) ==
    Outcome(Resp(op, name, "DB_NO_RECORD", << Err(<<name>>, kind) >>, 0, 0, 0),
            conf, file)

\* tools.combine: a new dict, the second merged over the first, dict by dict;
\* the stored record it starts from is cloned, not shared
RECURSIVE combine(_, _)
combine(first, second) ==
    [ k \in (DOMAIN first) \cup (DOMAIN second) |->
        IF k \notin DOMAIN second THEN first[k]
        ELSE IF k \in DOMAIN first /\ IsDict(first[k]) /\ IsDict(second[k])
             THEN combine(first[k], second[k])
             ELSE second[k] ]

(***************************************************************************)
(* Portal requests                                                         *)
(***************************************************************************)
PortalCreate(req, env) ==
    IF ~env.allowed THEN Denied("portal_create")
    ELSE IF Missing(req, <<"name", "record">>) # <<>>
    THEN MissingFields("portal_create", req, <<"name", "record">>)
    ELSE IF req.name \in DOMAIN conf.portals
    THEN Duplicate("portal_create", req.name, "portals")
    ELSE PortalValidation("portal_create", req.name, req.record,
                          env.nvm, env.store)

PortalUpdate(req, env) ==
    IF ~env.allowed THEN Denied("portal_update")
    ELSE IF Missing(req, <<"name", "record">>) # <<>>
    THEN MissingFields("portal_update", req, <<"name", "record">>)
    ELSE IF req.name \notin DOMAIN conf.portals
    THEN NoRecord("portal_update", req.name, "portal")
    ELSE PortalValidation("portal_update", req.name,
                          combine(conf.portals[req.name], req.record),
                          env.nvm, env.store)

\* the entry is deleted from a second clone that is thrown away
DeletePersistKeeps(op, kind, name, storeOk) ==
    IF storeOk
    THEN Outcome(Resp(op, name, "OK", <<>>, 0, 0, 1), conf, conf)
    ELSE Outcome(Resp(op, name, "DB_CREATE_FAILED", <<>>, 0, 0, 1), conf, file)

\* lines 223-239 / 533-549: clone, delete the entry, store, swap
DeletePersist(op, kind, name, storeOk) ==
    LET dConf == [conf EXCEPT ![kind] = DelKey(@, name)]
    IN  IF storeOk
        THEN Outcome(Resp(op, name, "OK", <<>>, 0, 0, 1), dConf, dConf)
        ELSE Outcome(Resp(op, name, "DB_CREATE_FAILED", <<>>, 0, 0, 1),
                     conf, file)

PortalDelete(req, env) ==
    IF ~env.allowed THEN Denied("portal_delete")
    ELSE IF Missing(req, <<"name">>) # <<>>
    THEN MissingFields("portal_delete", req, <<"name">>)
    ELSE IF req.name \notin DOMAIN conf.portals
    THEN NoRecord("portal_delete", req.name, "portal")
    ELSE DeletePersist("portal_delete", "portals", req.name, env.store)

PortalsRead(allowed) ==
    IF ~allowed THEN Denied("portals_read")
    ELSE Outcome(Reply("portals_read", "", "OK", <<>>, conf.portals, 0, 0, 0),
                 conf, file)

(***************************************************************************)
(* Rest requests                                                           *)
(***************************************************************************)
RestCreate(req, env) ==
    IF ~env.allowed THEN Denied("rest_create")
    ELSE IF Missing(req, <<"name", "record">>) # <<>>
    THEN MissingFields("rest_create", req, <<"name", "record">>)
    ELSE IF req.name \in DOMAIN conf.rest
    THEN Duplicate("rest_create", req.name, "rest")
    ELSE RestValidation("rest_create", req.name, req.record,
                        env.sup, env.store)

\* the services that are None stay in the merged record
DropNoneServicesKeeps(dRest) == dRest

\* lines 600-603: the services that are None are deleted
DropNoneServices(dRest) ==
    [dRest EXCEPT !.services =
        [ k \in { s \in DOMAIN dRest.services : dRest.services[s] # None } |->
            dRest.services[k] ]]

RestUpdate(req, env) ==
    IF ~env.allowed THEN Denied("rest_update")
    ELSE IF Missing(req, <<"name", "record">>) # <<>>
    THEN MissingFields("rest_update", req, <<"name", "record">>)
    ELSE IF req.name \notin DOMAIN conf.rest
    THEN NoRecord("rest_update", req.name, "rest")
    ELSE RestValidation("rest_update", req.name,
                        DropNoneServices(combine(conf.rest[req.name],
                                                 req.record)),
                        env.sup, env.store)

RestDelete(req, env) ==
    IF ~env.allowed THEN Denied("rest_delete")
    ELSE IF Missing(req, <<"name">>) # <<>>
    THEN MissingFields("rest_delete", req, <<"name">>)
    ELSE IF req.name \notin DOMAIN conf.rest
    THEN NoRecord("rest_delete", req.name, "rest")
    ELSE DeletePersist("rest_delete", "rest", req.name, env.store)

RestRead(allowed) ==
    IF ~allowed THEN Denied("rest_read")
    ELSE Outcome(Reply("rest_read", "", "OK", <<>>, conf.rest, 0, 0, 0),
                 conf, file)

\* reset: the configuration is loaded again from the file
Reset == Outcome(Resp("reset", "", "OK", <<>>, 0, 0, 0), file, file)

(***************************************************************************)
(* The requests and the environments the model explores                    *)
(***************************************************************************)
Names == {"app", "api"}

TildeD == <<"~", "/", "d">>

GitBlock == [ checkout |-> Bool(FALSE), submodule |-> Bool(TRUE) ]

PortalRecords ==
    { [ path |-> Str(<<" ">> \o TildeD \o <<" ">>), output |-> Str(<<"d", " ">>),
        node |-> [ nvm |-> Str(<<" ", "n", " ">>) ] ],
      [ path |-> Str(TildeD), output |-> Str(<<"d">>), git |-> GitBlock,
        node |-> [ nvm |-> Str(<<" ">>) ] ],
      [ path |-> Str(TildeD), output |-> Str(<<"d">>) ],
      [ output |-> Str(<<" ", "d">>), node |-> EmptyDict ],
      [ path |-> Str(<<"/", "x">>), output |-> Str(<<"x">>),
        node |-> [ nvm |-> Str(<<"n">>) ] ],
      [ node |-> [ nvm |-> Str(<<>>) ] ],
      [ path |-> None ] }

RestRecords ==
    { [ path |-> Str(<<" ">> \o TildeD \o <<" ">>),
        python |-> [ which |-> Str(<<" ", "/", "p", " ">>),
                     requirements |-> Str(<<" ">>) ],
        services |-> [ a |-> EmptyDict ] ],
      [ path |-> Str(TildeD), git |-> GitBlock, python |-> EmptyDict,
        services |-> [ a |-> [ supervisor |-> Str(<<" ", "w", " ">>) ],
                       w |-> EmptyDict ] ],
      [ path |-> Str(TildeD), services |-> [ a |-> EmptyDict ] ],
      [ path |-> Str(<<"/", "x">>),
        python |-> [ which |-> Str(<<"/", "q">>),
                     requirements |-> Str(<<"r">>) ],
        services |-> [ a |-> [ supervisor |-> Str(<<"x">>) ],
                       w |-> EmptyDict ] ],
      [ services |-> [ a |-> None ] ],
      [ python |-> [ which |-> Str(<<>>) ] ],
      [ path |-> Str(TildeD), python |-> EmptyDict, services |-> EmptyDict ],
      [ path |-> Str(TildeD), python |-> EmptyDict ] }

\* a request with both fields, or with one or both of them missing
RequestsOf(records) ==
    { [ name |-> x, record |-> d ] : x \in Names, d \in records }
    \cup { [ name |-> x ] : x \in Names }
    \cup { [ record |-> EmptyDict ], EmptyDict }

PortalRequests == RequestsOf(PortalRecords)

RestRequests == RequestsOf(RestRecords)

DeleteRequests == { EmptyDict } \cup { [ name |-> x ] : x \in Names }

\* the session's right, the outcome of `nvm alias`, and whether the store
\* succeeds; the store is reached only when every check passed
PortalEnvs ==
    { [ allowed |-> TRUE, nvm |-> o, store |-> TRUE ] : o \in NvmOutcomes }
    \cup { [ allowed |-> TRUE, nvm |-> "alias", store |-> FALSE ] }

PortalDenied == [ allowed |-> FALSE, nvm |-> "alias", store |-> TRUE ]

\* the calls of a write: every request in every environment, and one call
\* of a session without the right
PortalCalls ==
    (PortalRequests \X PortalEnvs) \cup { <<EmptyDict, PortalDenied>> }

\* the outputs of `supervisorctl avail`: "a r\nw\n", "w r\n" and ""
SupOutcomes ==
    { SupFailed,
      SupOutput(<<"a", " ", "r", "\n", "w", "\n">>),
      SupOutput(<<"w", " ", "r", "\n">>),
      SupOutput(<<>>) }

RestEnvs ==
    { [ allowed |-> TRUE, sup |-> o, store |-> TRUE ] : o \in SupOutcomes }
    \cup { [ allowed |-> TRUE, store |-> FALSE,
             sup |-> SupOutput(<<"a", " ", "r", "\n", "w", "\n">>) ] }

RestDenied == [ allowed |-> FALSE, sup |-> SupFailed, store |-> TRUE ]

RestCalls ==
    (RestRequests \X RestEnvs) \cup { <<EmptyDict, RestDenied>> }

DeleteCalls ==
    (DeleteRequests \X { [ allowed |-> TRUE, store |-> w ] : w \in BOOLEAN })
    \cup { <<EmptyDict, [ allowed |-> FALSE, store |-> TRUE ]>> }

(***************************************************************************)
(* The service                                                             *)
(***************************************************************************)
\* a configuration file that holds no entry
EmptyConf == [ portals |-> EmptyDict, rest |-> EmptyDict ]

\* the request handlers that may run side by side
Writers == {1, 2}

\* a handler that serves no request
Idle ==
    [ pc |-> "idle", op |-> "", call |-> <<EmptyDict, EmptyDict>>,
      cand |-> EmptyDict, base |-> EmptyConf, dConf |-> EmptyConf,
      result |-> Resp("", "", "", <<>>, 0, 0, 0) ]

\* no handler has written the file or replaced self._conf yet
NoWriter == [ store |-> 0, swap |-> 0 ]

\* __init__ and reset, lines 36-51 and 608-624: the configuration is the
\* content of the file, here a file that holds no entry yet
Init ==
    /\ file = EmptyConf
    /\ conf = file
    /\ result = Resp("reset", "", "OK", <<>>, 0, 0, 0)
    /\ nops = 0
    /\ threads = [ w \in Writers |-> Idle ]
    /\ last = NoWriter

portal_create ==
    /\ nops < MaxOps
    /\ \E call \in PortalCalls :
          LET o == PortalCreate(call[1], call[2])
          IN  conf' = o.conf /\ file' = o.file /\ result' = o.result
    /\ nops' = nops + 1
    /\ UNCHANGED <<threads, last>>

portal_update ==
    /\ nops < MaxOps
    /\ \E call \in PortalCalls :
          LET o == PortalUpdate(call[1], call[2])
          IN  conf' = o.conf /\ file' = o.file /\ result' = o.result
    /\ nops' = nops + 1
    /\ UNCHANGED <<threads, last>>

portal_delete ==
    /\ nops < MaxOps
    /\ \E call \in DeleteCalls :
          LET o == PortalDelete(call[1], call[2])
          IN  conf' = o.conf /\ file' = o.file /\ result' = o.result
    /\ nops' = nops + 1
    /\ UNCHANGED <<threads, last>>

portals_read ==
    /\ nops < MaxOps
    /\ \E allowed \in BOOLEAN :
          LET o == PortalsRead(allowed)
          IN  conf' = o.conf /\ file' = o.file /\ result' = o.result
    /\ nops' = nops + 1
    /\ UNCHANGED <<threads, last>>

rest_create ==
    /\ nops < MaxOps
    /\ \E call \in RestCalls :
          LET o == RestCreate(call[1], call[2])
          IN  conf' = o.conf /\ file' = o.file /\ result' = o.result
    /\ nops' = nops + 1
    /\ UNCHANGED <<threads, last>>

rest_update ==
    /\ nops < MaxOps
    /\ \E call \in RestCalls :
          LET o == RestUpdate(call[1], call[2])
          IN  conf' = o.conf /\ file' = o.file /\ result' = o.result
    /\ nops' = nops + 1
    /\ UNCHANGED <<threads, last>>

rest_delete ==
    /\ nops < MaxOps
    /\ \E call \in DeleteCalls :
          LET o == RestDelete(call[1], call[2])
          IN  conf' = o.conf /\ file' = o.file /\ result' = o.result
    /\ nops' = nops + 1
    /\ UNCHANGED <<threads, last>>

rest_read ==
    /\ nops < MaxOps
    /\ \E allowed \in BOOLEAN :
          LET o == RestRead(allowed)
          IN  conf' = o.conf /\ file' = o.file /\ result' = o.result
    /\ nops' = nops + 1
    /\ UNCHANGED <<threads, last>>

reset ==
    /\ nops < MaxOps
    /\ conf' = Reset.conf /\ file' = Reset.file /\ result' = Reset.result
    /\ nops' = nops + 1
    /\ UNCHANGED <<threads, last>>

Next ==
    \/ portal_create
    \/ portal_update
    \/ portal_delete
    \/ portals_read
    \/ rest_create
    \/ rest_update
    \/ rest_delete
    \/ rest_read
    \/ reset

Spec == Init /\ [][Next]_vars

(***************************************************************************)
(* Properties                                                              *)
(***************************************************************************)
\* the mapping a request works on
KindOf(op) ==
    IF op \in {"rest_create", "rest_update", "rest_delete", "rest_read"}
    THEN "rest"
    ELSE "portals"

Creates == {"portal_create", "rest_create"}

Updates == {"portal_update", "rest_update"}

Deletes == {"portal_delete", "rest_delete"}

Reads == {"portals_read", "rest_read"}

\* C1: a create or update that ends with DATA_FIELDS leaves the in-memory
\* configuration and the file exactly as they were before the request, the
\* stored record of the same name included.
C1_RejectedWriteChangesNothing ==
    [][ (result'.op \in Creates \cup Updates /\ result'.code = "DATA_FIELDS")
        => (conf' = conf /\ file' = file) ]_vars

\* C1 witness: an update of a stored rest record was rejected after the
\* candidate was normalised and the supervisor was asked.
C1_Witness ==
    /\ result.op = "rest_update"
    /\ result.code = "DATA_FIELDS"
    /\ result.supCalls = 1
    /\ result.name \in DOMAIN conf.rest
    /\ conf = file

\* the response of a request stopped by a name guard: the given code, no
\* probe, no store, nothing changed
GuardStops(code) ==
    /\ result'.code = code
    /\ result'.nvmCalls = 0 /\ result'.supCalls = 0 /\ result'.storeCalls = 0
    /\ conf' = conf /\ file' = file

\* C2: a create of a name its mapping holds returns DB_DUPLICATE, an update
\* or delete of a name its mapping lacks returns DB_NO_RECORD; neither runs a
\* probe or a store nor changes the configuration or the file.
C2_NameGuards ==
    [][ /\ (result'.op \in Creates
            /\ result'.name \in DOMAIN conf[KindOf(result'.op)])
           => GuardStops("DB_DUPLICATE")
        /\ (result'.op \in Updates \cup Deletes /\ result'.name \in Names
            /\ result'.name \notin DOMAIN conf[KindOf(result'.op)])
           => GuardStops("DB_NO_RECORD") ]_vars

\* C2 witness: an update of a missing name was refused and did not create it.
C2_Witness ==
    /\ result.op = "rest_update"
    /\ result.code = "DB_NO_RECORD"
    /\ result.name \notin DOMAIN conf.rest
    /\ conf.portals # EmptyDict

\* C3: a delete that succeeds removes exactly an existing name from its
\* mapping, a read that follows does not hold the name, and a second delete
\* of the name right after returns DB_NO_RECORD and changes nothing.
C3_DeleteRemoves ==
    [][ /\ (result'.op \in Deletes /\ result'.code = "OK")
           => /\ result'.name \in DOMAIN conf[KindOf(result'.op)]
              /\ result'.name \notin DOMAIN conf'[KindOf(result'.op)]
              /\ result'.name \notin DOMAIN file'[KindOf(result'.op)]
        /\ (result.op \in Deletes /\ result.code = "OK")
           => /\ (result'.op \in Reads /\ result'.code = "OK"
                  /\ KindOf(result'.op) = KindOf(result.op))
                 => result.name \notin DOMAIN result'.data
              /\ (result'.op = result.op /\ result'.name = result.name)
                 => (result'.code = "DB_NO_RECORD"
                     /\ conf' = conf /\ file' = file) ]_vars

\* C3 witness: a stored entry was deleted and is gone, another one stays.
C3_Witness ==
    /\ result.op = "portal_delete"
    /\ result.code = "OK"
    /\ result.name \notin DOMAIN conf.portals
    /\ conf.portals # EmptyDict

\* C4: a write whose store fails returns DB_CREATE_FAILED and keeps the
\* in-memory configuration; the in-memory configuration changes only in a
\* request whose store succeeded, and then to what was stored.
C4_PersistFailureKeepsConf ==
    [][ /\ result'.code = "DB_CREATE_FAILED" => conf' = conf
        /\ conf' # conf
           => (result'.code = "OK" /\ result'.storeCalls = 1
               /\ file' = conf') ]_vars

\* C4 witness: the store of an update of a stored portal failed.
C4_Witness ==
    /\ result.op = "portal_update"
    /\ result.code = "DB_CREATE_FAILED"
    /\ result.storeCalls = 1
    /\ result.name \in DOMAIN conf.portals

\* the configurations a read or a reload can show
Stored == {conf, file}

\* the step taken is the outcome o of a call
Took(o) == result' = o.result /\ conf' = o.conf /\ file' = o.file

\* a call that passes the right, the field and the name checks of a create
CreateCall(call, kind) ==
    /\ call[2].allowed
    /\ {"name", "record"} \subseteq DOMAIN call[1]
    /\ call[1].name \notin DOMAIN conf[kind]

\* C5, as claimed: after a create that succeeds the stored path fields are
\* expanded and absolute.
C5_AsClaimed ==
    [][ (result'.op \in Creates /\ result'.code = "OK")
        => LET r == conf'[KindOf(result'.op)][result'.name]
           IN  /\ r.path.str = Resolve(r.path.str)
               /\ "output" \in DOMAIN r => r.output.str = Resolve(r.output.str)
      ]_vars

\* C5, amended: a read returns the mapping of the configuration, and a create
\* that succeeds stores the name with the path fields equal to the submitted
\* strings stripped of surrounding whitespace; the expanded absolute path is
\* only the copy that was checked to be an existing directory.
C5_CreateStoresStrippedPaths ==
    /\ PortalsRead(TRUE).result.data = conf.portals
    /\ RestRead(TRUE).result.data = conf.rest
    /\ \A call \in PortalCalls :
          LET o == PortalCreate(call[1], call[2])
          IN  (CreateCall(call, "portals") /\ o.result.code = "OK")
              => /\ call[1].name \in DOMAIN o.conf.portals
                 /\ LET r == o.conf.portals[call[1].name]
                    IN  /\ r.path = Strip(call[1].record.path)
                        /\ r.output = Strip(call[1].record.output)
                        /\ isdir(Resolve(r.path.str))
                        /\ isdir(Resolve(r.output.str))
    /\ \A call \in RestCalls :
          LET o == RestCreate(call[1], call[2])
          IN  (CreateCall(call, "rest") /\ o.result.code = "OK")
              => /\ call[1].name \in DOMAIN o.conf.rest
                 /\ LET r == o.conf.rest[call[1].name]
                    IN  /\ r.path = Strip(call[1].record.path)
                        /\ isdir(Resolve(r.path.str))

\* C5 witness: a portal was created and its stored path and output are the
\* stripped strings "~/d" and "d", neither expanded nor absolute.
C5_Witness ==
    /\ result.op = "portal_create"
    /\ result.code = "OK"
    /\ result.name \in DOMAIN conf.portals
    /\ conf.portals[result.name].path = Str(TildeD)
    /\ conf.portals[result.name].output = Str(<<"d">>)

\* the optional str fields of the stored records, each with its dict
OptionalFields(c) ==
    { <<c.portals[n].node, "nvm">> :
         n \in { m \in DOMAIN c.portals : "node" \in DOMAIN c.portals[m] } }
    \cup { <<c.rest[n].python, k>> :
              n \in { m \in DOMAIN c.rest : "python" \in DOMAIN c.rest[m] },
              k \in {"which", "requirements"} }
    \cup UNION { { <<c.rest[n].services[k], "supervisor">> :
                      k \in DOMAIN c.rest[n].services } : n \in DOMAIN c.rest }

\* the git blocks of the stored records
GitBlocks(c) ==
    { c.portals[n].git :
         n \in { m \in DOMAIN c.portals : "git" \in DOMAIN c.portals[m] } }
    \cup { c.rest[n].git :
              n \in { m \in DOMAIN c.rest : "git" \in DOMAIN c.rest[m] } }

Blank(v) == IsStr(v) /\ StripChars(v.str) = <<>>

\* C6, as claimed: no stored record holds a git flag that is false or an
\* optional str field that is present with a blank or null value.
C6_AsClaimed ==
    \A c \in Stored :
       /\ \A g \in GitBlocks(c) : \A k \in DOMAIN g : g[k] # Bool(FALSE)
       /\ \A f \in OptionalFields(c) :
             f[2] \in DOMAIN f[1] => (f[1][f[2]] # None /\ ~Blank(f[1][f[2]]))

\* C6, amended: no stored record holds an optional str field with a blank or
\* unstripped string; a blank, null or missing one is stored, present, as None.
C6_NoBlankOptionalString ==
    \A c \in Stored : \A f \in OptionalFields(c) :
       /\ f[2] \in DOMAIN f[1]
       /\ \/ f[1][f[2]] = None
          \/ /\ IsStr(f[1][f[2]])
             /\ ~Blank(f[1][f[2]])
             /\ StripChars(f[1][f[2]].str) = f[1][f[2]].str

\* C6 witness: a stored portal holds nvm None and the git flag checkout false.
C6_Witness ==
    /\ result.op = "portal_create"
    /\ result.code = "OK"
    /\ result.name \in DOMAIN file.portals
    /\ file.portals[result.name].node.nvm = None
    /\ "git" \in DOMAIN file.portals[result.name]
    /\ file.portals[result.name].git.checkout = Bool(FALSE)

\* every sub-field of a block is false, blank or None
BlockEmpty(b) == \A k \in DOMAIN b : b[k] = Bool(FALSE) \/ b[k] = None \/ Blank(b[k])

\* C7, as claimed: no stored record holds a git, node or python block whose
\* sub-fields are all false, blank or absent.
C7_AsClaimed ==
    \A c \in Stored : \A kind \in {"portals", "rest"} : \A n \in DOMAIN c[kind] :
       \A b \in {"git", "node", "python"} \cap DOMAIN c[kind][n] :
          ~BlockEmpty(c[kind][n][b])

\* the update of portal n with node.nvm = ""
BlankNvmUpdate(n) ==
    PortalUpdate([ name |-> n, record |-> [ node |-> [ nvm |-> Str(<<>>) ] ] ],
                 [ allowed |-> TRUE, nvm |-> "alias", store |-> TRUE ])

\* C7, amended: every stored portal holds its node block with the nvm key and
\* every stored rest record its python block with the which and requirements
\* keys, also when all of them are None; updating a portal with node.nvm = ""
\* succeeds and stores the node block {nvm: None}.
C7_BlankBlocksAreKept ==
    /\ \A c \in Stored :
          /\ \A n \in DOMAIN c.portals :
                /\ "node" \in DOMAIN c.portals[n]
                /\ DOMAIN c.portals[n].node = {"nvm"}
          /\ \A n \in DOMAIN c.rest :
                /\ "python" \in DOMAIN c.rest[n]
                /\ DOMAIN c.rest[n].python = {"which", "requirements"}
    /\ \A n \in DOMAIN conf.portals :
          /\ BlankNvmUpdate(n).result.code = "OK"
          /\ BlankNvmUpdate(n).conf.portals[n].node = [ nvm |-> None ]

\* C7 witness: after an update the stored portal has no git block and a node
\* block that holds only nvm None.
C7_Witness ==
    /\ result.op = "portal_update"
    /\ result.code = "OK"
    /\ result.nvmCalls = 0
    /\ "git" \notin DOMAIN file.portals[result.name]
    /\ file.portals[result.name].node = [ nvm |-> None ]

\* the record a write hands to the validation
RestCandidate(op, req) ==
    IF op = "rest_create" THEN req.record
    ELSE DropNoneServices(combine(conf.rest[req.name], req.record))

PortalCandidate(op, req) ==
    IF op = "portal_create" THEN req.record
    ELSE combine(conf.portals[req.name], req.record)

\* a call that passes the right, the field and the name checks of the write
WriteCall(op, call) ==
    /\ call[2].allowed
    /\ {"name", "record"} \subseteq DOMAIN call[1]
    /\ (op \in Creates) = (call[1].name \notin DOMAIN conf[KindOf(op)])

RestWrite(op, call) ==
    IF op = "rest_create" THEN RestCreate(call[1], call[2])
    ELSE RestUpdate(call[1], call[2])

PortalWrite(op, call) ==
    IF op = "portal_create" THEN PortalCreate(call[1], call[2])
    ELSE PortalUpdate(call[1], call[2])

\* the name a service is known by to the supervisor
EffectiveName(k, d) ==
    IF "supervisor" \in DOMAIN d /\ d.supervisor # None /\ ~Blank(d.supervisor)
    THEN StripChars(d.supervisor.str)
    ELSE <<k>>

\* the services of a record whose name the probe did not return
Unregistered(data, sup) ==
    { k \in DOMAIN data.services :
         ~sup.ok \/ EffectiveName(k, data.services[k]) \notin Programs(sup.out) }

Cites(errs, field) == \E i \in 1..Len(errs) : errs[i][1] = field

\* C8, as claimed: a rest write of a record that passes the record definition
\* is stored only if every service's effective name is in the set the probe
\* returned; otherwise it returns DATA_FIELDS citing the service and changes
\* nothing.
C8_AsClaimed ==
    [][ \A op \in {"rest_create", "rest_update"} : \A call \in RestCalls :
          (/\ WriteCall(op, call)
           /\ RestValid(RestCandidate(op, call[1]))
           /\ Took(RestWrite(op, call)))
          => LET data == RestCandidate(op, call[1])
             IN  IF Unregistered(data, call[2].sup) = {}
                 THEN TRUE
                 ELSE /\ result'.code = "DATA_FIELDS"
                      /\ \A k \in Unregistered(data, call[2].sup) :
                            \/ Cites(result'.errs, <<"record", "services", k>>)
                            \/ Cites(result'.errs,
                                     <<"record", "services", k, "supervisor">>)
                      /\ conf' = conf /\ file' = file ]_vars

\* C9, as claimed: a create of a record without the optional blocks, with
\* existing directories, registered services and a store that works, succeeds
\* and the name is in the mapping afterwards.
C9_AsClaimed ==
    [][ /\ \A call \in PortalCalls :
             (/\ WriteCall("portal_create", call)
              /\ PortalValid(call[1].record)
              /\ DOMAIN call[1].record = {"path", "output"}
              /\ isdir(Resolve(Strip(call[1].record.path).str))
              /\ isdir(Resolve(Strip(call[1].record.output).str))
              /\ call[2].store
              /\ Took(PortalCreate(call[1], call[2])))
             => (result'.code = "OK"
                 /\ call[1].name \in DOMAIN conf'.portals)
        /\ \A call \in RestCalls :
             (/\ WriteCall("rest_create", call)
              /\ RestValid(call[1].record)
              /\ DOMAIN call[1].record = {"path", "services"}
              /\ isdir(Resolve(Strip(call[1].record.path).str))
              /\ Unregistered(call[1].record, call[2].sup) = {}
              /\ call[2].store
              /\ Took(RestCreate(call[1], call[2])))
             => (result'.code = "OK"
                 /\ call[1].name \in DOMAIN conf'.rest) ]_vars

\* C10, as claimed: a write whose supervisor listing or nvm alias query fails
\* returns DATA_FIELDS with an entry for the failed probe and changes nothing.
C10_AsClaimed ==
    [][ /\ \A op \in {"rest_create", "rest_update"} : \A call \in RestCalls :
             (/\ WriteCall(op, call)
              /\ RestValid(RestCandidate(op, call[1]))
              /\ "python" \in DOMAIN RestCandidate(op, call[1])
              /\ ~call[2].sup.ok
              /\ Took(RestWrite(op, call)))
             => /\ result'.code = "DATA_FIELDS"
                /\ Cites(result'.errs, <<"record", "services">>)
                /\ conf' = conf /\ file' = file
        /\ \A op \in {"portal_create", "portal_update"} : \A call \in PortalCalls :
             (/\ WriteCall(op, call)
              /\ PortalValid(PortalCandidate(op, call[1]))
              /\ "node" \in DOMAIN PortalCandidate(op, call[1])
              /\ NvmProbed(PortalCandidate(op, call[1]).node)
              /\ call[2].nvm = "error"
              /\ Took(PortalWrite(op, call)))
             => /\ result'.code = "DATA_FIELDS"
                /\ Cites(result'.errs, <<"record", "node", "nvm">>)
                /\ conf' = conf /\ file' = file ]_vars

(***************************************************************************)
(* Updates                                                                 *)
(***************************************************************************)
\* the services of a partial record, and those of them it sets to None
ServicesOf(P) == IF "services" \in DOMAIN P THEN P.services ELSE EmptyDict

Nulled(P) == { k \in DOMAIN ServicesOf(P) : ServicesOf(P)[k] = None }

\* key k of c is key k of r with that of p merged over it, block by block
RECURSIVE MergeKey(_, _, _, _)
MergeKey(c, r, p, k) ==
    IF k \notin DOMAIN p THEN c[k] = r[k]
    ELSE IF k \in DOMAIN r /\ IsDict(r[k]) /\ IsDict(p[k])
         THEN /\ DOMAIN c[k] = (DOMAIN r[k]) \cup (DOMAIN p[k])
              /\ \A j \in DOMAIN c[k] : MergeKey(c[k], r[k], p[k], j)
         ELSE c[k] = p[k]

\* c is the stored record R with the partial record P merged over it
PortalMerged(c, R, P) ==
    /\ DOMAIN c = (DOMAIN R) \cup (DOMAIN P)
    /\ \A k \in DOMAIN c : MergeKey(c, R, P, k)

\* the same for a rest record, less the services the merge left None
RestMerged(c, R, P) ==
    /\ DOMAIN c = (DOMAIN R) \cup (DOMAIN P)
    /\ \A k \in DOMAIN c \ {"services"} : MergeKey(c, R, P, k)
    /\ DOMAIN c.services
          = ((DOMAIN R.services) \cup (DOMAIN ServicesOf(P))) \ Nulled(P)
    /\ \A k \in DOMAIN c.services :
          MergeKey(c.services, R.services, ServicesOf(P), k)

\* the record outcome o holds under a name
StoredBy(o, kind, name) == o.conf[kind][name]

\* C11: the record an update hands to the validation is the stored record
\* with the partial record merged over it, key by key and block by block;
\* rest_update takes out of it the services the partial record sets to None,
\* and an update that succeeds stores a record with the merged keys, the keys
\* the partial record does not name as they were, and exactly those services
\* gone.
C11_UpdateMerges ==
    /\ \A call \in PortalCalls :
          WriteCall("portal_update", call)
          => LET R == conf.portals[call[1].name]
                 P == call[1].record
                 o == PortalUpdate(call[1], call[2])
             IN  /\ PortalMerged(PortalCandidate("portal_update", call[1]), R, P)
                 /\ o.result.code = "OK"
                    => /\ DOMAIN StoredBy(o, "portals", call[1].name)
                             = (DOMAIN R) \cup (DOMAIN P)
                       /\ \A k \in (DOMAIN R) \ (DOMAIN P) :
                             StoredBy(o, "portals", call[1].name)[k] = R[k]
    /\ \A call \in RestCalls :
          WriteCall("rest_update", call)
          => LET R == conf.rest[call[1].name]
                 P == call[1].record
                 o == RestUpdate(call[1], call[2])
             IN  /\ RestMerged(RestCandidate("rest_update", call[1]), R, P)
                 /\ o.result.code = "OK"
                    => /\ DOMAIN StoredBy(o, "rest", call[1].name)
                             = (DOMAIN R) \cup (DOMAIN P)
                       /\ \A k \in (DOMAIN R) \ (DOMAIN P) :
                             StoredBy(o, "rest", call[1].name)[k] = R[k]
                       /\ DOMAIN StoredBy(o, "rest", call[1].name).services
                             = ((DOMAIN R.services) \cup (DOMAIN ServicesOf(P)))
                               \ Nulled(P)

\* C11 witness: an update took the only service out of a stored rest record
\* and kept the python file the record was created with.
C11_Witness ==
    /\ result.op = "rest_update"
    /\ result.code = "OK"
    /\ DOMAIN conf.rest[result.name].services = {}
    /\ conf.rest[result.name].python.which = Str(<<"/", "p">>)
    /\ file = conf

(***************************************************************************)
(* The stages of a write                                                   *)
(***************************************************************************)
\* outcome o of a write whose candidate passes the record definition or not:
\* a candidate that does not pass ends the write at once; the store is
\* attempted at most once and only with an empty error list; the
\* configuration and the file change only in a write that stored
StagesHold(o, valid) ==
    /\ ~valid => /\ o.result.code = "DATA_FIELDS"
                 /\ o.result.errs # <<>>
                 /\ o.result.nvmCalls = 0
                 /\ o.result.supCalls = 0
                 /\ o.result.storeCalls = 0
    /\ o.result.storeCalls \in {0, 1}
    /\ o.result.storeCalls = 1
       => /\ valid
          /\ o.result.errs = <<>>
          /\ o.result.code \in {"OK", "DB_CREATE_FAILED"}
    /\ (o.conf # conf \/ o.file # file)
       => /\ o.result.storeCalls = 1
          /\ o.result.code = "OK"
          /\ o.conf = o.file
    /\ o.result.code # "OK" => (o.conf = conf /\ o.file = file)

\* C14: a write whose candidate fails the record definition returns at once,
\* with no probe and no store; the store is attempted only when no check left
\* an error; the configuration is swapped only after the store succeeded, so
\* a write that is rejected at any stage changes nothing.
C14_WriteStages ==
    /\ \A op \in {"portal_create", "portal_update"} : \A call \in PortalCalls :
          WriteCall(op, call)
          => StagesHold(PortalWrite(op, call),
                        PortalValid(PortalCandidate(op, call[1])))
    /\ \A op \in {"rest_create", "rest_update"} : \A call \in RestCalls :
          WriteCall(op, call)
          => StagesHold(RestWrite(op, call),
                        RestValid(RestCandidate(op, call[1])))
    /\ \A call \in DeleteCalls :
          /\ StagesHold(PortalDelete(call[1], call[2]), TRUE)
          /\ StagesHold(RestDelete(call[1], call[2]), TRUE)

\* C14 witness: an update of a stored portal was rejected after the alias
\* query ran, without a store, and the stored record is still there.
C14_Witness ==
    /\ result.op = "portal_update"
    /\ result.code = "DATA_FIELDS"
    /\ result.nvmCalls = 1
    /\ result.storeCalls = 0
    /\ result.name \in DOMAIN conf.portals
    /\ conf = file

(***************************************************************************)
(* The checks of a write                                                   *)
(***************************************************************************)
\* field k of d names no existing directory
BadDir(d, k) == ~isdir(Resolve(Strip(d[k]).str))

\* the record holds a non-blank python field k that names no existing file
BadFile(d, k) ==
    /\ "python" \in DOMAIN d
    /\ k \in DOMAIN d.python
    /\ d.python[k] # None
    /\ ~Blank(d.python[k])
    /\ ~isfile(Resolve(Strip(d.python[k]).str))

\* the record holds a non-blank nvm alias
HasAlias(d) ==
    /\ "node" \in DOMAIN d
    /\ "nvm" \in DOMAIN d.node
    /\ d.node.nvm # None
    /\ ~Blank(d.node.nvm)

Count(b) == IF b THEN 1 ELSE 0

\* the number of checks a portal candidate fails after the record definition
PortalFailing(d, env) ==
    Count(BadDir(d, "path")) + Count(BadDir(d, "output"))
    + Count(HasAlias(d) /\ env.nvm # "alias")

\* the same for a rest candidate: the probe that fails counts once, the
\* services are looked up in what it returned
RestFailing(d, env) ==
    Count(BadDir(d, "path")) + Count(BadFile(d, "which"))
    + Count(BadFile(d, "requirements")) + Count(~env.sup.ok)
    + Cardinality({ k \in DOMAIN d.services :
                      EffectiveName(k, d.services[k]) \notin Programs(env.sup.out) })

\* C15, as claimed: a write whose candidate passes the record definition and
\* fails two or more of the later checks returns DATA_FIELDS with one entry
\* for every failing check.
C15_AsClaimed ==
    /\ \A op \in {"portal_create", "portal_update"} : \A call \in PortalCalls :
          (/\ WriteCall(op, call)
           /\ PortalValid(PortalCandidate(op, call[1]))
           /\ PortalFailing(PortalCandidate(op, call[1]), call[2]) >= 2)
          => /\ PortalWrite(op, call).result.code = "DATA_FIELDS"
             /\ Len(PortalWrite(op, call).result.errs)
                   = PortalFailing(PortalCandidate(op, call[1]), call[2])
    /\ \A op \in {"rest_create", "rest_update"} : \A call \in RestCalls :
          (/\ WriteCall(op, call)
           /\ RestValid(RestCandidate(op, call[1]))
           /\ RestFailing(RestCandidate(op, call[1]), call[2]) >= 2)
          => /\ RestWrite(op, call).result.code = "DATA_FIELDS"
             /\ Len(RestWrite(op, call).result.errs)
                   = RestFailing(RestCandidate(op, call[1]), call[2])

(***************************************************************************)
(* The probes of a write                                                   *)
(***************************************************************************)
\* C16: no request runs `supervisorctl avail` or `nvm alias` more than once,
\* whatever the number of services; a portal request never runs the
\* supervisor listing and a rest request never the alias query; the alias
\* query runs only for a candidate whose node.nvm is not blank once stripped.
C16_ProbesAtMostOnce ==
    /\ result.nvmCalls \in {0, 1}
    /\ result.supCalls \in {0, 1}
    /\ KindOf(result.op) = "portals" => result.supCalls = 0
    /\ KindOf(result.op) = "rest" => result.nvmCalls = 0
    /\ result.op \in Deletes \cup Reads \cup {"reset"}
       => (result.nvmCalls = 0 /\ result.supCalls = 0)
    /\ \A op \in {"portal_create", "portal_update"} : \A call \in PortalCalls :
          (/\ WriteCall(op, call)
           /\ PortalWrite(op, call).result.nvmCalls = 1)
          => HasAlias(PortalCandidate(op, call[1]))

\* C16 witness: a rest record with two services was stored after one run of
\* the supervisor listing.
C16_Witness ==
    /\ result.op = "rest_create"
    /\ result.code = "OK"
    /\ result.supCalls = 1
    /\ Cardinality(DOMAIN conf.rest[result.name].services) = 2

(***************************************************************************)
(* What a request leaves alone                                             *)
(***************************************************************************)
OtherKind(kind) == IF kind = "rest" THEN "portals" ELSE "rest"

\* C19: a write that succeeds on name n of one kind leaves the mapping of the
\* other kind and every other entry of its own mapping as they were; a create
\* adds exactly n, an update keeps the set of names, a delete removes exactly
\* n; the file holds the same; a read changes nothing.
C19_WriteChangesOnlyItsEntry ==
    [][ /\ (result'.op \in Creates \cup Updates \cup Deletes
            /\ result'.code = "OK")
           => LET K == KindOf(result'.op)
                  n == result'.name
              IN  /\ conf'[OtherKind(K)] = conf[OtherKind(K)]
                  /\ \A m \in ((DOMAIN conf[K]) \cup (DOMAIN conf'[K])) \ {n} :
                        /\ m \in DOMAIN conf[K]
                        /\ m \in DOMAIN conf'[K]
                        /\ conf'[K][m] = conf[K][m]
                  /\ result'.op \in Creates
                     => /\ n \notin DOMAIN conf[K]
                        /\ DOMAIN conf'[K] = (DOMAIN conf[K]) \cup {n}
                  /\ result'.op \in Updates
                     => /\ n \in DOMAIN conf[K]
                        /\ DOMAIN conf'[K] = DOMAIN conf[K]
                  /\ result'.op \in Deletes
                     => /\ n \in DOMAIN conf[K]
                        /\ DOMAIN conf'[K] = (DOMAIN conf[K]) \ {n}
                  /\ file' = conf'
        /\ result'.op \in Reads => (conf' = conf /\ file' = file) ]_vars

\* C19 witness: a second portal was created next to a stored portal and a
\* stored rest record.
C19_Witness ==
    /\ result.op = "portal_create"
    /\ result.code = "OK"
    /\ Cardinality(DOMAIN conf.portals) = 2
    /\ DOMAIN conf.rest # {}

(***************************************************************************)
(* Requests that run side by side.  A handler reads self._conf when it     *)
(* checks the name (and merges an update), works on its own candidate      *)
(* while it validates, reads self._conf again when it clones, writes the   *)
(* file, and at last replaces self._conf.  No lock is held between these   *)
(* steps, so the steps of two handlers interleave freely.                  *)
(***************************************************************************)
\* a configuration file that holds a portal and a rest record, as stored by
\* earlier creates
StartConf ==
    [ portals |-> [ app |-> [ path |-> Str(TildeD), output |-> Str(<<"d">>),
                              node |-> [ nvm |-> Str(<<"n">>) ] ] ],
      rest |-> [ app |-> [ path |-> Str(TildeD),
                           python |-> [ which |-> None, requirements |-> None ],
                           services |-> [ a |-> [ supervisor |-> None ] ] ] ] ]

Alias == [ allowed |-> TRUE, nvm |-> "alias", store |-> TRUE ]

Listed ==
    [ allowed |-> TRUE, store |-> TRUE,
      sup |-> SupOutput(<<"a", " ", "r", "\n", "w", "\n">>) ]

\* the writes the handlers serve: creates of a new and of a stored name, a
\* create that fails its checks, updates, deletes, and stores that fail
StepWrites ==
    { [ op |-> "portal_create",
        call |-> << [ name |-> x,
                      record |-> [ path |-> Str(<<" ">> \o TildeD),
                                   output |-> Str(<<"d", " ">>),
                                   node |-> EmptyDict ] ], Alias >> ] :
        x \in Names }
    \cup
    { [ op |-> "portal_create",
        call |-> << [ name |-> "api",
                      record |-> [ path |-> Str(<<"/", "x">>),
                                   output |-> Str(<<"d">>),
                                   node |-> EmptyDict ] ], Alias >> ] }
    \cup
    { [ op |-> "portal_update",
        call |-> << [ name |-> "app",
                      record |-> [ node |-> [ nvm |-> Str(<<" ">>) ] ] ],
                    e >> ] : e \in { Alias, [Alias EXCEPT !.store = FALSE] } }
    \cup
    { [ op |-> "rest_create",
        call |-> << [ name |-> "api",
                      record |-> [ path |-> Str(TildeD), python |-> EmptyDict,
                                   services |-> [ w |-> EmptyDict ] ] ],
                    Listed >> ],
      [ op |-> "rest_update",
        call |-> << [ name |-> "app",
                      record |-> [ services |-> [ a |-> None,
                                                  w |-> EmptyDict ] ] ],
                    Listed >> ] }
    \cup
    { [ op |-> o, call |-> << [ name |-> "app" ],
                              [ allowed |-> TRUE, store |-> TRUE ] >> ] :
        o \in {"portal_delete", "rest_delete"} }

\* the handler of a request
Handle(op, call) ==
    CASE op = "portal_create" -> PortalCreate(call[1], call[2])
      [] op = "portal_update" -> PortalUpdate(call[1], call[2])
      [] op = "portal_delete" -> PortalDelete(call[1], call[2])
      [] op = "rest_create" -> RestCreate(call[1], call[2])
      [] op = "rest_update" -> RestUpdate(call[1], call[2])
      [] op = "rest_delete" -> RestDelete(call[1], call[2])

\* the request passes the right, the field and the name checks
GuardPasses(op, call) ==
    /\ call[2].allowed
    /\ Missing(call[1], IF op \in Deletes THEN <<"name">>
                        ELSE <<"name", "record">>) = <<>>
    /\ (op \in Creates) = (call[1].name \notin DOMAIN conf[KindOf(op)])

\* the record the handler goes on with: the submitted one, or the stored
\* one with the submitted one merged over it; a delete has none
Candidate(op, req) ==
    IF op \in Deletes THEN EmptyDict
    ELSE IF KindOf(op) = "rest" THEN RestCandidate(op, req)
    ELSE PortalCandidate(op, req)

\* _portal_validation / _rest_validation up to the clone: the response when
\* a check fails, else the normalised record
Validation(op, name, data, env) ==
    IF KindOf(op) = "rest"
    THEN RestValidation(op, name, data, env.sup, TRUE)
    ELSE PortalValidation(op, name, data, env.nvm, TRUE)

\* configuration c with the change of request t applied
Changed(c, t) ==
    IF t.op \in Deletes
    THEN [c EXCEPT ![KindOf(t.op)] = DelKey(@, t.call[1].name)]
    ELSE [c EXCEPT ![KindOf(t.op)] = SetKey(@, t.call[1].name, t.cand)]

\* the entry is set in self._conf itself, no clone is made
SharedAfterSet(c, t) == Changed(c, t)

\* lines 149-152 etc.: clone(self._conf) is a copy, so setting the entry in
\* dConf leaves self._conf as it is
ConfAfterSet(c, t) == c

\* the file is patched with the entry instead of being written whole
WrittenPatch(f, t) == Changed(f, t)

\* lines 155-156 etc.: jsonb.store writes the whole of dConf to the file
Written(f, t) == t.dConf

\* the entry is set in the configuration that is current at the swap
SwappedMerged(c, t) == Changed(c, t)

\* lines 161, 236, 471, 546: self._conf = dConf
Swapped(c, t) == t.dConf

\* self._conf is replaced although the store raised
AfterStoreAlways(ok) == "stored"

\* lines 155-158 etc.: a store that raises ends the request before the swap
AfterStore(ok) == IF ok THEN "stored" ELSE "done"

\* the response of request t once the store was attempted
Final(t, code) ==
    Resp(t.op, t.call[1].name, code, <<>>,
         t.result.nvmCalls, t.result.supCalls, 1)

\* the request ends with response r
Ended(t, r) == [t EXCEPT !.pc = "done", !.result = r]

\* the service starts from a file that holds StartConf
InitSteps ==
    /\ file = StartConf
    /\ conf = file
    /\ result = Resp("reset", "", "OK", <<>>, 0, 0, 0)
    /\ nops = 0
    /\ threads = [ w \in Writers |-> Idle ]
    /\ last = NoWriter

\* handler w takes a write: right, fields and name are checked against
\* self._conf, an update merges the stored record with the submitted one
begin(w) ==
    /\ nops < MaxReqs
    /\ threads[w].pc \in {"idle", "done"}
    /\ \E wr \in StepWrites :
          LET t == [Idle EXCEPT !.op = wr.op, !.call = wr.call]
          IN  IF GuardPasses(wr.op, wr.call)
              THEN /\ threads' =
                         [threads EXCEPT ![w] =
                            [t EXCEPT !.pc = IF wr.op \in Deletes THEN "checked"
                                             ELSE "received",
                                      !.cand = Candidate(wr.op, wr.call[1])]]
                   /\ result' = result
              ELSE /\ threads' =
                         [threads EXCEPT ![w] =
                            Ended(t, Handle(wr.op, wr.call).result)]
                   /\ result' = Handle(wr.op, wr.call).result
    /\ nops' = nops + 1
    /\ UNCHANGED <<conf, file, last>>

\* the record definition, the normalisation and the probes, all on the
\* handler's own candidate
validate(w) ==
    /\ threads[w].pc = "received"
    /\ LET t == threads[w]
           o == Validation(t.op, t.call[1].name, t.cand, t.call[2])
       IN  IF o.result.code = "OK"
           THEN /\ threads' =
                      [threads EXCEPT ![w] =
                         [t EXCEPT !.pc = "checked", !.result = o.result,
                                   !.cand = o.conf[KindOf(t.op)][t.call[1].name]]]
                /\ result' = result
           ELSE /\ threads' = [threads EXCEPT ![w] = Ended(t, o.result)]
                /\ result' = o.result
    /\ UNCHANGED <<conf, file, nops, last>>

\* dConf = clone(self._conf), then the entry is set or deleted in dConf; the
\* del of a name that another handler removed meanwhile raises KeyError
clone(w) ==
    /\ threads[w].pc = "checked"
    /\ LET t == threads[w]
           gone == /\ t.op \in Deletes
                   /\ t.call[1].name \notin DOMAIN conf[KindOf(t.op)]
           r == Resp(t.op, t.call[1].name, "UNCAUGHT",
                     << Err(<<t.call[1].name>>, "KeyError") >>, 0, 0, 0)
       IN  IF gone
           THEN /\ threads' = [threads EXCEPT ![w] = Ended(t, r)]
                /\ result' = r
                /\ conf' = conf
           ELSE /\ threads' =
                      [threads EXCEPT ![w] =
                         [t EXCEPT !.pc = "cloned", !.base = conf,
                                   !.dConf = Changed(conf, t)]]
                /\ result' = result
                /\ conf' = ConfAfterSet(conf, t)
    /\ UNCHANGED <<file, nops, last>>

\* jsonb.store(dConf, self._path): the file is written whole, or the store
\* raises, the file stays as it was and the request ends
store(w) ==
    /\ threads[w].pc = "cloned"
    /\ LET t == threads[w]
           ok == t.call[2].store
       IN  /\ file' = IF ok THEN Written(file, t) ELSE file
           /\ last' = IF ok THEN [last EXCEPT !.store = w] ELSE last
           /\ IF AfterStore(ok) = "stored"
              THEN /\ threads' = [threads EXCEPT ![w].pc = "stored"]
                   /\ result' = result
              ELSE /\ threads' =
                         [threads EXCEPT ![w] =
                            Ended(t, Final(t, "DB_CREATE_FAILED"))]
                   /\ result' = Final(t, "DB_CREATE_FAILED")
    /\ UNCHANGED <<conf, nops>>

\* self._conf = dConf, and the request returns
swap(w) ==
    /\ threads[w].pc = "stored"
    /\ conf' = Swapped(conf, threads[w])
    /\ threads' = [threads EXCEPT ![w] = Ended(@, Final(@, "OK"))]
    /\ result' = Final(threads[w], "OK")
    /\ last' = [last EXCEPT !.swap = w]
    /\ UNCHANGED <<file, nops>>

\* portals_read / rest_read: the mapping self._conf holds at that moment
read ==
    /\ nops < MaxReqs
    /\ \E o \in { PortalsRead(TRUE), RestRead(TRUE) } : result' = o.result
    /\ nops' = nops + 1
    /\ UNCHANGED <<conf, file, threads, last>>

\* reset, between two requests: self._conf is loaded from the file
reload ==
    /\ nops < MaxReqs
    /\ \A w \in Writers : threads[w].pc \in {"idle", "done"}
    /\ conf' = Reset.conf
    /\ result' = Reset.result
    /\ nops' = nops + 1
    /\ UNCHANGED <<file, threads, last>>

\* two handlers and readers side by side
NextSteps ==
    \/ \E w \in Writers : begin(w)
    \/ \E w \in Writers : validate(w)
    \/ \E w \in Writers : clone(w)
    \/ \E w \in Writers : store(w)
    \/ \E w \in Writers : swap(w)
    \/ read

SpecSteps == InitSteps /\ [][NextSteps]_vars

\* one handler: a request ends before the next one starts
NextSingle ==
    \/ begin(1)
    \/ validate(1)
    \/ clone(1)
    \/ store(1)
    \/ swap(1)
    \/ read
    \/ reload

SpecSingle == InitSteps /\ [][NextSingle]_vars

(***************************************************************************)
(* Properties of requests that run side by side                            *)
(***************************************************************************)
\* handler w returned success
Succeeded(w) == threads[w].pc = "done" /\ threads[w].result.code = "OK"

\* configuration c shows the change of request t
Shows(c, t) ==
    IF t.op \in Deletes
    THEN t.call[1].name \notin DOMAIN c[KindOf(t.op)]
    ELSE /\ t.call[1].name \in DOMAIN c[KindOf(t.op)]
         /\ c[KindOf(t.op)][t.call[1].name] = t.cand

\* two requests on the same entry
SameEntry(t, u) ==
    KindOf(t.op) = KindOf(u.op) /\ t.call[1].name = u.call[1].name

\* both handlers returned success on different entries, after each cloned
\* one and the same snapshot that showed neither change
BothFromOneSnapshot ==
    /\ Succeeded(1) /\ Succeeded(2)
    /\ ~SameEntry(threads[1], threads[2])
    /\ threads[1].base = threads[2].base
    /\ ~Shows(threads[1].base, threads[1])
    /\ ~Shows(threads[1].base, threads[2])

\* C12: when two writes on different entries both return success after each
\* cloned the same snapshot, the in-memory configuration is the clone of one
\* of them and lacks the change of the other, and so does the file: one
\* update is lost.
C12_SameSnapshotLosesOne ==
    BothFromOneSnapshot
    => /\ conf \in { threads[1].dConf, threads[2].dConf }
       /\ file \in { threads[1].dConf, threads[2].dConf }
       /\ ~(Shows(conf, threads[1]) /\ Shows(conf, threads[2]))
       /\ ~(Shows(file, threads[1]) /\ Shows(file, threads[2]))

\* C12 witness: a portal create and a rest create both returned success and
\* neither the configuration nor the file holds the portal.
C12_Witness ==
    /\ BothFromOneSnapshot
    /\ threads[1].op = "portal_create"
    /\ threads[2].op = "rest_create"
    /\ "api" \notin DOMAIN conf.portals
    /\ "api" \notin DOMAIN file.portals
    /\ "api" \in DOMAIN conf.rest

\* an optional str field is None, or stripped and not blank
Settled(d, k) ==
    /\ k \in DOMAIN d
    /\ d[k] = None \/ (IsStr(d[k]) /\ ~Blank(d[k]) /\ Strip(d[k]) = d[k])

\* a record as a write that succeeded leaves it: it passes the record
\* definition and every field is normalised
Complete(kind, d) ==
    IF kind = "portals"
    THEN /\ PortalValid(d)
         /\ Strip(d.path) = d.path /\ Strip(d.output) = d.output
         /\ "node" \in DOMAIN d /\ Settled(d.node, "nvm")
    ELSE /\ RestValid(d)
         /\ Strip(d.path) = d.path
         /\ "python" \in DOMAIN d
         /\ Settled(d.python, "which") /\ Settled(d.python, "requirements")
         /\ \A k \in DOMAIN d.services : Settled(d.services[k], "supervisor")

\* C13: a read returns the mapping self._conf holds; every record of it is
\* complete; self._conf changes only in the swap of a handler whose store
\* succeeded, and then to that handler's whole clone, so no step of a write
\* in flight, the checks and the store included, shows anything to a reader.
C13_ReadersSeeWholeWrites ==
    /\ [](/\ result.op \in Reads => result.data = conf[KindOf(result.op)]
          /\ \A kind \in {"portals", "rest"} : \A n \in DOMAIN conf[kind] :
                Complete(kind, conf[kind][n]))
    /\ [][ conf' # conf
           => \E w \in Writers :
                 /\ threads[w].pc = "stored"
                 /\ threads[w].call[2].store
                 /\ Succeeded(w)'
                 /\ conf' = threads[w].dConf
                 /\ threads[w].dConf = Changed(threads[w].base, threads[w]) ]_vars

\* C13 witness: a read returned the mapping without the portal whose create
\* was in flight, already written to the file and not yet swapped in.
C13_Witness ==
    /\ result.op = "portals_read"
    /\ \E w \in Writers :
          /\ threads[w].pc = "stored"
          /\ threads[w].op = "portal_create"
          /\ threads[w].call[1].name \notin DOMAIN result.data
          /\ threads[w].call[1].name \in DOMAIN file.portals

\* C17, as claimed: after two writes that both returned success the file and
\* the in-memory configuration hold the same configuration, the clone of one
\* of the two handlers.
C17_AsClaimed ==
    (Succeeded(1) /\ Succeeded(2))
    => \E w \in Writers : conf = threads[w].dConf /\ file = threads[w].dConf

\* C17, amended: after two writes that both returned success the in-memory
\* configuration is the clone of the handler that swapped last and the file
\* is the clone of the handler that stored last; the two are equal when it
\* is the same handler.
C17_LastStoreAndLastSwapWin ==
    (Succeeded(1) /\ Succeeded(2))
    => /\ last.swap \in Writers /\ last.store \in Writers
       /\ conf = threads[last.swap].dConf
       /\ file = threads[last.store].dConf
       /\ last.swap = last.store => conf = file

\* C17 witness: both writes returned success, one handler stored last, the
\* other swapped last, and the file differs from the configuration.
C17_Witness ==
    /\ Succeeded(1) /\ Succeeded(2)
    /\ last.store = 2
    /\ last.swap = 1
    /\ conf # file
    /\ ~Shows(conf, threads[2])
    /\ ~Shows(file, threads[1])

(***************************************************************************)
(* Properties of a single handler                                          *)
(***************************************************************************)
\* C18: with one handler and a store that either writes the whole file or
\* leaves it as it was, the in-memory configuration equals the content of the
\* file whenever no request is in flight, whatever creates, updates, deletes,
\* reads and resets were served; a reset makes the configuration the content
\* of the file and leaves the file alone.
C18_ConfIsFileBetweenRequests ==
    /\ [](threads[1].pc \in {"idle", "done"} => conf = file)
    /\ [][ (result'.op = "reset" /\ nops' # nops)
           => (conf' = file /\ file' = file) ]_vars

\* C18 witness: a reset was served after a write that changed the file, and
\* the configuration is the content of the file.
C18_Witness ==
    /\ result.op = "reset"
    /\ Succeeded(1)
    /\ file # StartConf
    /\ conf = file

====
